---- MODULE Spec2Model ----
(* Character / item / combat model of dataclasses_vs_classic_classes/026.py, *)
(* and the bank accounts of 021.py, the immutable point and configuration  *)
(* of 022.py and the circles of 019.py, each under specifications of its   *)
(* own.                                                                     *)
EXTENDS Integers, Sequences, FiniteSets, TLC

VARIABLES
    chars,   \* the fields of each Character object, by the variable bound to it
    lists,   \* the list objects on the heap: inventory fields refer to them
    pc,      \* per character: "__init__" (fields assigned) or "ready"
    ctor,    \* the arguments each object was constructed with
    call,    \* the last call that completed
    report,  \* what the last call printed, as a sequence of message kinds
    hits,    \* the attacks made so far in the scripted battle
    accounts, \* 021.py: the slots of each bank account, by its class
    point,    \* 022.py: the instance attributes of the ClassicImmutablePoint
    config,   \* 022.py: the instance attributes of the ClassicConfiguration
    circles,  \* 019.py: the instance attributes of each circle, by its class
    returned  \* 019/021/022.py: how the last call ended, value or exception

\* the objects of the programs next to the character model
others == <<accounts, point, config, circles, returned>>

vars == <<chars, lists, pc, ctor, call, report, hits, others>>

(* ------------------------------------------------------------------ *)
(* Bounds of the model                                                 *)
(* ------------------------------------------------------------------ *)

\* add_item is enabled while the heap holds fewer items than this
MaxItems == 2
\* use_consumable is enabled while the healed health stays within this
MaxHealth == 12
\* the scripted battle stops after this many attacks
MaxHits == 6

(* ------------------------------------------------------------------ *)
(* Values                                                              *)
(* ------------------------------------------------------------------ *)

Max(a, b) == IF a >= b THEN a ELSE b

\* a Python str
Str(s) == [type |-> "str", value |-> s]

\* the members of the CharacterClass enum; a member never equals a str
CharacterClass ==
    [ KNIGHT      |-> [type |-> "CharacterClass", value |-> "Knight"],
      MAGE        |-> [type |-> "CharacterClass", value |-> "Mage"],
      ROGUE       |-> [type |-> "CharacterClass", value |-> "Rogue"],
      ARCHER      |-> [type |-> "CharacterClass", value |-> "Archer"],
      CLERIC      |-> [type |-> "CharacterClass", value |-> "Cleric"],
      WARRIOR     |-> [type |-> "CharacterClass", value |-> "Warrior"],
      ASSASSIN    |-> [type |-> "CharacterClass", value |-> "Assassin"],
      BERSERKER   |-> [type |-> "CharacterClass", value |-> "Berserker"],
      PALADIN     |-> [type |-> "CharacterClass", value |-> "Paladin"],
      NECROMANCER |-> [type |-> "CharacterClass", value |-> "Necromancer"],
      DRUID       |-> [type |-> "CharacterClass", value |-> "Druid"],
      BARD        |-> [type |-> "CharacterClass", value |-> "Bard"],
      MONK        |-> [type |-> "CharacterClass", value |-> "Monk"],
      RANGER      |-> [type |-> "CharacterClass", value |-> "Ranger"],
      SORCERER    |-> [type |-> "CharacterClass", value |-> "Sorcerer"],
      WARLOCK     |-> [type |-> "CharacterClass", value |-> "Warlock"],
      WIZARD      |-> [type |-> "CharacterClass", value |-> "Wizard"],
      BARBARIAN   |-> [type |-> "CharacterClass", value |-> "Barbarian"],
      ARTIFICER   |-> [type |-> "CharacterClass", value |-> "Artificer"],
      BLOODHUNTER |-> [type |-> "CharacterClass", value |-> "Blood Hunter"],
      GRUNT       |-> [type |-> "CharacterClass", value |-> "Grunt"] ]

\* isinstance(v, CharacterClass)
IsCharacterClass(v) == v.type = "CharacterClass"

\* member.value
ValueOf(member) == Str(member.value)

(* ------------------------------------------------------------------ *)
(* Items                                                               *)
(* ------------------------------------------------------------------ *)

\* An item object: oid is the object's identity, class its Python class; the
\* fields a class does not declare are left at a filler value.
Item(oid, name, description) ==
    [oid |-> oid, class |-> "Item", name |-> name, description |-> description,
     potion_type |-> "-", amount |-> 0, damage |-> 0, defense |-> 0, durability |-> 0]

Weapon(oid, name, description, damage, durability) ==
    [Item(oid, name, description) EXCEPT
        !.class = "Weapon", !.damage = damage, !.durability = durability]

Armor(oid, name, description, defense, durability) ==
    [Item(oid, name, description) EXCEPT
        !.class = "Armor", !.defense = defense, !.durability = durability]

Potion(oid, name, description, potion_type, amount) ==
    [Item(oid, name, description) EXCEPT
        !.class = "Potion", !.potion_type = potion_type, !.amount = amount]

\* isinstance(item, Potion)
IsPotion(item) == item.class = "Potion"

\* the dataclass __eq__: same class and equal fields, whatever the identity
ItemEq(a, b) ==
    /\ a.class = b.class
    /\ a.name = b.name
    /\ a.description = b.description
    /\ a.potion_type = b.potion_type
    /\ a.amount = b.amount
    /\ a.damage = b.damage
    /\ a.defense = b.defense
    /\ a.durability = b.durability

\* what list.__contains__ and list.remove match on: identity, then equality
Matches(element, item) == element.oid = item.oid \/ ItemEq(element, item)

\* item in inventory
Contains(inventory, item) ==
    \E i \in 1..Len(inventory) : Matches(inventory[i], item)

\* inventory.remove(item): drops the first matching element
Remove(inventory, item) ==
    LET first == CHOOSE i \in 1..Len(inventory) :
                    /\ Matches(inventory[i], item)
                    /\ \A j \in 1..(i - 1) : ~Matches(inventory[j], item)
    IN  [k \in 1..(Len(inventory) - 1) |->
            IF k < first THEN inventory[k] ELSE inventory[k + 1]]

\* mutant: drinking empties the potion
consume_emptied(self) ==
    [result |-> self.amount, out |-> <<"drinking">>, self |-> [self EXCEPT !.amount = 0]]

\* Potion.consume: the value returned, the message printed and the potion as
\* the call leaves it
consume(self) == [result |-> self.amount, out |-> <<"drinking">>, self |-> self]

\* the item objects of the runs
sword == Weapon("sword", "Sword of Power", "A mighty sword.", 3, 4)
potion == Potion("potion", "Healing Potion", "Restores health.", "HEALTH", 2)
potion_twin == Potion("potion_twin", "Healing Potion", "Restores health.", "HEALTH", 2)

Items == {sword, potion, potion_twin}

NoItem == Item("-", "-", "-")

\* class Consumable(Item): no field of its own, the __init__ and __eq__ of Item
Consumable(oid, name, description) ==
    [Item(oid, name, description) EXCEPT !.class = "Consumable"]

\* a consumable that is no potion
scroll == Consumable("scroll", "Scroll of Mending", "Restores health.")

\* a potion that restores nothing
water == Potion("water", "Water", "Just water.", "HEALTH", 0)

\* the items of the runs with a scroll
Scrolls == {scroll, potion, water}

(* ------------------------------------------------------------------ *)
(* Character                                                           *)
(* ------------------------------------------------------------------ *)

CharIds == {"hero", "goblin"}

\* the characters the runs make inventory calls on
Carriers == {"hero"}

\* the list objects: one a character's __post_init__ may create, by character,
\* and one the caller holds and may pass as inventory=
ListIds == CharIds \cup {"supplied"}

None == "None"

Attrs == {"strength", "perception", "dexterity", "intelligence", "charisma", "luck"}

Fields == Attrs \cup {"level", "health", "attack", "defense"}

\* a keyword argument if supplied, the field's default otherwise
Arg(kw, f, default) == IF f \in DOMAIN kw THEN kw[f] ELSE default

\* mutant: the draw may fall one below the lower end
randint_from_below(a, b) == (a - 1)..b

\* random.randint(a, b)
randint(a, b) == a..b

\* The generated __init__: args.kw holds the keyword arguments supplied,
\* args.rnd what the default factories of the other attributes drew.
__init__(args) ==
    [ name            |-> args.name,
      character_class |-> args.character_class,
      strength        |-> Arg(args.kw, "strength", args.rnd["strength"]),
      perception      |-> Arg(args.kw, "perception", args.rnd["perception"]),
      dexterity       |-> Arg(args.kw, "dexterity", args.rnd["dexterity"]),
      intelligence    |-> Arg(args.kw, "intelligence", args.rnd["intelligence"]),
      charisma        |-> Arg(args.kw, "charisma", args.rnd["charisma"]),
      luck            |-> Arg(args.kw, "luck", args.rnd["luck"]),
      level           |-> Arg(args.kw, "level", 1),
      health          |-> Arg(args.kw, "health", 100),
      attack          |-> Arg(args.kw, "attack", 10),
      defense         |-> Arg(args.kw, "defense", 5),
      inventory       |-> args.inventory ]

_apply_class_bonuses(self) ==
    IF self.character_class = ValueOf(CharacterClass.KNIGHT) THEN
        [self EXCEPT !.strength = @ + 2, !.defense = @ + 1, !.health = @ + 10]
    ELSE IF self.character_class = ValueOf(CharacterClass.MAGE) THEN
        [self EXCEPT !.intelligence = @ + 3, !.attack = @ + 2, !.health = @ - 5]
    ELSE IF self.character_class = ValueOf(CharacterClass.ROGUE) THEN
        [self EXCEPT !.dexterity = @ + 3, !.perception = @ + 1, !.attack = @ + 1]
    ELSE IF self.character_class = ValueOf(CharacterClass.ARCHER) THEN
        [self EXCEPT !.dexterity = @ + 2, !.perception = @ + 2, !.attack = @ + 1]
    ELSE IF self.character_class = ValueOf(CharacterClass.CLERIC) THEN
        [self EXCEPT !.charisma = @ + 2, !.intelligence = @ + 1, !.health = @ + 5]
    ELSE IF self.character_class = ValueOf(CharacterClass.WARRIOR) THEN
        [self EXCEPT !.strength = @ + 3, !.defense = @ + 2, !.health = @ + 15]
    ELSE IF self.character_class = ValueOf(CharacterClass.ASSASSIN) THEN
        [self EXCEPT !.dexterity = @ + 4, !.luck = @ + 1, !.attack = @ + 2,
                     !.health = @ - 10]
    ELSE IF self.character_class = ValueOf(CharacterClass.BERSERKER) THEN
        [self EXCEPT !.strength = @ + 4, !.health = @ + 20, !.defense = @ - 1]
    ELSE IF self.character_class = ValueOf(CharacterClass.PALADIN) THEN
        [self EXCEPT !.strength = @ + 1, !.charisma = @ + 2, !.defense = @ + 2,
                     !.health = @ + 10]
    ELSE IF self.character_class = ValueOf(CharacterClass.NECROMANCER) THEN
        [self EXCEPT !.intelligence = @ + 3, !.charisma = @ + 1, !.health = @ - 5]
    ELSE IF self.character_class = ValueOf(CharacterClass.DRUID) THEN
        [self EXCEPT !.charisma = @ + 2, !.perception = @ + 1, !.health = @ + 5]
    ELSE IF self.character_class = ValueOf(CharacterClass.BARD) THEN
        [self EXCEPT !.charisma = @ + 2, !.luck = @ + 1, !.attack = @ + 1]
    ELSE IF self.character_class = ValueOf(CharacterClass.MONK) THEN
        [self EXCEPT !.charisma = @ + 2, !.strength = @ + 1, !.health = @ + 5]
    ELSE IF self.character_class = ValueOf(CharacterClass.RANGER) THEN
        [self EXCEPT !.dexterity = @ + 3, !.perception = @ + 2, !.attack = @ + 1]
    ELSE IF self.character_class = ValueOf(CharacterClass.SORCERER) THEN
        [self EXCEPT !.intelligence = @ + 4, !.luck = @ + 1, !.attack = @ + 2]
    ELSE IF self.character_class = ValueOf(CharacterClass.WARLOCK) THEN
        [self EXCEPT !.charisma = @ + 3, !.luck = @ + 2, !.health = @ - 10]
    ELSE IF self.character_class = ValueOf(CharacterClass.WIZARD) THEN
        [self EXCEPT !.intelligence = @ + 4, !.luck = @ + 1, !.attack = @ + 2]
    ELSE IF self.character_class = ValueOf(CharacterClass.BARBARIAN) THEN
        [self EXCEPT !.strength = @ + 4, !.defense = @ + 2, !.health = @ + 20]
    ELSE IF self.character_class = ValueOf(CharacterClass.ARTIFICER) THEN
        [self EXCEPT !.intelligence = @ + 3, !.luck = @ + 1, !.attack = @ + 1]
    ELSE IF self.character_class = ValueOf(CharacterClass.BLOODHUNTER) THEN
        [self EXCEPT !.strength = @ + 3, !.dexterity = @ + 1, !.health = @ + 10]
    ELSE IF self.character_class = ValueOf(CharacterClass.GRUNT) THEN
        [self EXCEPT !.strength = @ + 1, !.health = @ + 5]
    ELSE self

\* mutant: the enum member is stored as it came
normalise_skipped(character_class) == character_class

\* line 107: an enum member is replaced by its value, a str is kept
normalise(character_class) ==
    IF IsCharacterClass(character_class) THEN ValueOf(character_class)
    ELSE character_class

\* mutant: an inventory left out stays None
__post_init__keeps_none(self, fresh) ==
    _apply_class_bonuses([self EXCEPT !.character_class = normalise(@)])

\* mutant: the bonuses are never applied
__post_init__without_bonuses(self, fresh) ==
    LET owned == IF self.inventory = None
                 THEN [self EXCEPT !.inventory = fresh] ELSE self
    IN  [owned EXCEPT !.character_class = normalise(@)]

\* mutant: a label that is no member's value is taken for a Grunt
__post_init__unknown_as_grunt(self, fresh) ==
    LET owned == IF self.inventory = None
                 THEN [self EXCEPT !.inventory = fresh] ELSE self
        label == normalise(owned.character_class)
        known == \E m \in DOMAIN CharacterClass : label = ValueOf(CharacterClass[m])
        named == [owned EXCEPT !.character_class =
                     IF known THEN label ELSE ValueOf(CharacterClass.GRUNT)]
    IN  _apply_class_bonuses(named)

\* fresh is the list object created when no inventory was supplied
__post_init__(self, fresh) ==
    LET owned == IF self.inventory = None
                 THEN [self EXCEPT !.inventory = fresh] ELSE self
        named == [owned EXCEPT !.character_class = normalise(@)]
    IN  _apply_class_bonuses(named)

\* mutant: the health is not clamped at 0
take_damage_unclamped(self, amount) ==
    LET damage_taken == Max(0, amount - self.defense)
        hit == [self EXCEPT !.health = @ - damage_taken]
    IN  IF hit.health <= 0
        THEN [self |-> hit, out |-> <<"defeated">>]
        ELSE [self |-> hit, out |-> <<"took">>]

\* mutant: the defense does not mitigate the damage
take_damage_undefended(self, amount) ==
    LET damage_taken == Max(0, amount)
        hit == [self EXCEPT !.health = @ - damage_taken]
    IN  IF hit.health <= 0
        THEN [self |-> [hit EXCEPT !.health = 0], out |-> <<"defeated">>]
        ELSE [self |-> hit, out |-> <<"took">>]

\* mutant: a hit also wears the defense down
take_damage_wearing(self, amount) ==
    LET damage_taken == Max(0, amount - self.defense)
        hit == [self EXCEPT !.health = @ - damage_taken,
                            !.defense = IF damage_taken > 0 THEN @ - 1 ELSE @]
    IN  IF hit.health <= 0
        THEN [self |-> [hit EXCEPT !.health = 0], out |-> <<"defeated">>]
        ELSE [self |-> hit, out |-> <<"took">>]

\* mutant: the damage is not floored at 0
take_damage_signed(self, amount) ==
    LET damage_taken == amount - self.defense
        hit == [self EXCEPT !.health = @ - damage_taken]
    IN  IF hit.health <= 0
        THEN [self |-> [hit EXCEPT !.health = 0], out |-> <<"defeated">>]
        ELSE [self |-> hit, out |-> <<"took">>]

\* mutant: a character is defeated only when its health falls below 0
take_damage_below_zero(self, amount) ==
    LET damage_taken == Max(0, amount - self.defense)
        hit == [self EXCEPT !.health = @ - damage_taken]
    IN  IF hit.health < 0
        THEN [self |-> [hit EXCEPT !.health = 0], out |-> <<"defeated">>]
        ELSE [self |-> hit, out |-> <<"took">>]

\* mutant: a negative amount gives its size back as health
take_damage_absorbing(self, amount) ==
    LET damage_taken == Max(0, amount - self.defense)
        hit == [self EXCEPT !.health =
                   @ - damage_taken + (IF amount < 0 THEN 0 - amount ELSE 0)]
    IN  IF hit.health <= 0
        THEN [self |-> [hit EXCEPT !.health = 0], out |-> <<"defeated">>]
        ELSE [self |-> hit, out |-> <<"took">>]

take_damage(self, amount) ==
    LET damage_taken == Max(0, amount - self.defense)
        hit == [self EXCEPT !.health = @ - damage_taken]
    IN  IF hit.health <= 0
        THEN [self |-> [hit EXCEPT !.health = 0], out |-> <<"defeated">>]
        ELSE [self |-> hit, out |-> <<"took">>]

\* mutant: every element matching the potion is removed
use_consumable_remove_all(self, inventory, consumable) ==
    IF Contains(inventory, consumable) THEN
        IF IsPotion(consumable) THEN
            LET healed_amount == consume(consumable)
                kept(element) == ~Matches(element, consumable)
            IN  [ self      |-> [self EXCEPT !.health = @ + healed_amount.result],
                  inventory |-> SelectSeq(inventory, kept),
                  out       |-> healed_amount.out \o <<"healed">> ]
        ELSE [self |-> self, inventory |-> inventory, out |-> <<"not_consumable">>]
    ELSE [self |-> self, inventory |-> inventory, out |-> <<"does_not_have">>]

\* mutant: the potion drunk stays in the inventory
use_consumable_kept(self, inventory, consumable) ==
    IF Contains(inventory, consumable) THEN
        IF IsPotion(consumable) THEN
            LET healed_amount == consume(consumable)
            IN  [ self      |-> [self EXCEPT !.health = @ + healed_amount.result],
                  inventory |-> inventory,
                  out       |-> healed_amount.out \o <<"healed">> ]
        ELSE [self |-> self, inventory |-> inventory, out |-> <<"not_consumable">>]
    ELSE [self |-> self, inventory |-> inventory, out |-> <<"does_not_have">>]

\* mutant: a potion heals whether or not the character holds it
use_consumable_unchecked(self, inventory, consumable) ==
    IF IsPotion(consumable) THEN
        LET healed_amount == consume(consumable)
        IN  [ self      |-> [self EXCEPT !.health = @ + healed_amount.result],
              inventory |-> IF Contains(inventory, consumable)
                            THEN Remove(inventory, consumable) ELSE inventory,
              out       |-> healed_amount.out \o <<"healed">> ]
    ELSE IF Contains(inventory, consumable)
    THEN [self |-> self, inventory |-> inventory, out |-> <<"not_consumable">>]
    ELSE [self |-> self, inventory |-> inventory, out |-> <<"does_not_have">>]

\* mutant: an item that is no potion is used up all the same
use_consumable_any(self, inventory, consumable) ==
    IF Contains(inventory, consumable) THEN
        [ self      |-> [self EXCEPT !.health = @ + consumable.amount],
          inventory |-> Remove(inventory, consumable),
          out       |-> IF IsPotion(consumable) THEN <<"drinking", "healed">>
                        ELSE <<"not_consumable">> ]
    ELSE [self |-> self, inventory |-> inventory, out |-> <<"does_not_have">>]

\* mutant: the element removed is the last one matching the potion
use_consumable_last_match(self, inventory, consumable) ==
    IF Contains(inventory, consumable) THEN
        IF IsPotion(consumable) THEN
            LET healed_amount == consume(consumable)
                last == CHOOSE i \in 1..Len(inventory) :
                           /\ Matches(inventory[i], consumable)
                           /\ \A j \in (i + 1)..Len(inventory) :
                                 ~Matches(inventory[j], consumable)
            IN  [ self      |-> [self EXCEPT !.health = @ + healed_amount.result],
                  inventory |-> [k \in 1..(Len(inventory) - 1) |->
                                    IF k < last THEN inventory[k] ELSE inventory[k + 1]],
                  out       |-> healed_amount.out \o <<"healed">> ]
        ELSE [self |-> self, inventory |-> inventory, out |-> <<"not_consumable">>]
    ELSE [self |-> self, inventory |-> inventory, out |-> <<"does_not_have">>]

\* inventory is the content of the list self.inventory refers to
use_consumable(self, inventory, consumable) ==
    IF Contains(inventory, consumable) THEN
        IF IsPotion(consumable) THEN
            LET healed_amount == consume(consumable)
            IN  [ self      |-> [self EXCEPT !.health = @ + healed_amount.result],
                  inventory |-> Remove(inventory, consumable),
                  out       |-> healed_amount.out \o <<"healed">> ]
        ELSE [self |-> self, inventory |-> inventory, out |-> <<"not_consumable">>]
    ELSE [self |-> self, inventory |-> inventory, out |-> <<"does_not_have">>]

\* mutant: the item goes to the front of the inventory
add_item_in_front(inventory, item) == <<item>> \o inventory

\* mutant: an item the inventory already holds is not added again
add_item_once(inventory, item) ==
    IF Contains(inventory, item) THEN inventory ELSE Append(inventory, item)

add_item(inventory, item) == Append(inventory, item)

\* mutant: the enemy is hit with its own attack
attack_enemy_own_attack(self, enemy) ==
    LET hit == take_damage(enemy, enemy.attack)
    IN  [enemy |-> hit.self, out |-> <<"attacks">> \o hit.out]

\* enemy as the call leaves it, and what was printed
attack_enemy(self, enemy) ==
    LET hit == take_damage(enemy, self.attack)
    IN  [enemy |-> hit.self, out |-> <<"attacks">> \o hit.out]

\* the names of the items, in order
RECURSIVE Names(_)
Names(inventory) ==
    IF inventory = <<>> THEN <<>>
    ELSE <<Head(inventory).name>> \o Names(Tail(inventory))

\* mutant: an inventory of one item is shown as empty
display_info_from_two(self, inventory) ==
    <<"info">> \o (IF Len(inventory) > 1 THEN Names(inventory) ELSE <<"Empty">>)

\* inventory is the content of the list self.inventory refers to, empty for
\* None; the header and stat lines are one message, the inventory line follows
display_info(self, inventory) ==
    <<"info">> \o (IF Len(inventory) > 0 THEN Names(inventory) ELSE <<"Empty">>)

(* ------------------------------------------------------------------ *)
(* Calls                                                               *)
(* ------------------------------------------------------------------ *)

Called(op, self, amount, item, enemy) ==
    [op |-> op, self |-> self, amount |-> amount, item |-> item, enemy |-> enemy]

NoCall == Called("-", "-", 0, NoItem, "-")

\* the amounts take_damage is called with
Amounts == {-2, 8, 60}

\* Character(...) returns: __post_init__ has run on the assigned fields
PostInit(c) ==
    /\ pc[c] = "__init__"
    /\ chars' = [chars EXCEPT ![c] = __post_init__(chars[c], c)]
    /\ pc' = [pc EXCEPT ![c] = "ready"]
    /\ call' = Called("__post_init__", c, 0, NoItem, "-")
    /\ report' = <<>>
    /\ UNCHANGED <<lists, ctor, hits, others>>

TakeDamage(c, amount) ==
    /\ pc[c] = "ready"
    /\ LET r == take_damage(chars[c], amount)
       IN  /\ chars' = [chars EXCEPT ![c] = r.self]
           /\ report' = r.out
    /\ call' = Called("take_damage", c, amount, NoItem, "-")
    /\ UNCHANGED <<lists, pc, ctor, hits, others>>

AttackEnemy(c, enemy) ==
    /\ pc[c] = "ready"
    /\ pc[enemy] = "ready"
    /\ LET r == attack_enemy(chars[c], chars[enemy])
       IN  /\ chars' = [chars EXCEPT ![enemy] = r.enemy]
           /\ report' = r.out
    /\ call' = Called("attack_enemy", c, 0, NoItem, enemy)
    /\ UNCHANGED <<lists, pc, ctor, hits, others>>

\* one attack of the scripted battle: the hero attacks the goblin
Battle ==
    /\ pc["hero"] = "ready"
    /\ pc["goblin"] = "ready"
    /\ hits < MaxHits
    /\ LET r == attack_enemy(chars["hero"], chars["goblin"])
       IN  /\ chars' = [chars EXCEPT !["goblin"] = r.enemy]
           /\ report' = r.out
    /\ call' = Called("attack_enemy", "hero", 0, NoItem, "goblin")
    /\ hits' = hits + 1
    /\ UNCHANGED <<lists, pc, ctor, others>>

\* all items in all list objects
HeapSize == Len(lists["hero"]) + Len(lists["goblin"]) + Len(lists["supplied"])

\* None has no append: the call raises before anything is changed
AddItem(c, item) ==
    /\ pc[c] = "ready"
    /\ HeapSize < MaxItems
    /\ IF chars[c].inventory = None
       THEN /\ report' = <<"AttributeError">>
            /\ lists' = lists
       ELSE /\ lists' = [lists EXCEPT ![chars[c].inventory] = add_item(@, item)]
            /\ report' = <<"picked_up">>
    /\ call' = Called("add_item", c, 0, item, "-")
    /\ UNCHANGED <<chars, pc, ctor, hits, others>>

\* a membership test on None raises before anything is changed
UseConsumable(c, consumable) ==
    /\ pc[c] = "ready"
    /\ IF chars[c].inventory = None
       THEN /\ report' = <<"TypeError">>
            /\ UNCHANGED <<chars, lists>>
       ELSE LET r == use_consumable(chars[c], lists[chars[c].inventory], consumable)
            IN  /\ r.self.health <= MaxHealth
                /\ chars' = [chars EXCEPT ![c] = r.self]
                /\ lists' = [lists EXCEPT ![chars[c].inventory] = r.inventory]
                /\ report' = r.out
    /\ call' = Called("use_consumable", c, 0, consumable, "-")
    /\ UNCHANGED <<pc, ctor, hits, others>>

DisplayInfo(c) ==
    /\ pc[c] = "ready"
    /\ report' = display_info(chars[c], IF chars[c].inventory = None THEN <<>>
                                        ELSE lists[chars[c].inventory])
    /\ call' = Called("display_info", c, 0, NoItem, "-")
    /\ UNCHANGED <<chars, lists, pc, ctor, hits, others>>

\* consume() called on the i-th potion of the list the caller holds
Consume(i) ==
    /\ i \in 1..Len(lists["supplied"])
    /\ IsPotion(lists["supplied"][i])
    /\ LET r == consume(lists["supplied"][i])
       IN  /\ lists' = [lists EXCEPT !["supplied"][i] = r.self]
           /\ report' = r.out
           /\ call' = Called("consume", "-", r.result, lists["supplied"][i], "-")
    /\ UNCHANGED <<chars, pc, ctor, hits, others>>

(* ------------------------------------------------------------------ *)
(* The classes of 021.py, 022.py and 019.py                            *)
(* ------------------------------------------------------------------ *)

\* an object without attributes: a name not bound, a __dict__ still empty
NoAttrs == [f \in {} |-> 0]

\* a call on one of these objects: name and value are its arguments
Invoked(op, self, name, value) ==
    [op |-> op, self |-> self, name |-> name, value |-> value]

\* how a call ends: with a value, or with an exception
Returns(value) == [raised |-> "-", value |-> value]

Raises(exception) == [raised |-> exception, value |-> "-"]

\* none of these objects is constructed
NoOthers ==
    /\ accounts = NoAttrs
    /\ point = NoAttrs
    /\ config = NoAttrs
    /\ circles = NoAttrs
    /\ returned = Returns(None)

\* no character is constructed
NoCharacters ==
    /\ chars = NoAttrs
    /\ lists = NoAttrs
    /\ pc = NoAttrs
    /\ report = <<>>
    /\ hits = 0

\* 021.py: the bank accounts with slots

\* deposit is enabled while the balance stays within this
MaxBalance == 6

AccountClasses == {"ClassicBankAccountSlots", "DataBankAccountSlots"}

ClassicBankAccountSlots__init__(account_number, owner, initial_balance) ==
    [account_number |-> account_number, owner |-> owner, _balance |-> initial_balance]

ClassicBankAccountSlots_deposit(self, amount) ==
    IF amount > 0 THEN [self EXCEPT !._balance = @ + amount] ELSE self

\* mutant: the amount is not compared with the balance
ClassicBankAccountSlots_withdraw_overdrawn(self, amount) ==
    IF 0 < amount
    THEN [self |-> [self EXCEPT !._balance = @ - amount], result |-> TRUE]
    ELSE [self |-> self, result |-> FALSE]

ClassicBankAccountSlots_withdraw(self, amount) ==
    IF 0 < amount /\ amount <= self._balance
    THEN [self |-> [self EXCEPT !._balance = @ - amount], result |-> TRUE]
    ELSE [self |-> self, result |-> FALSE]

DataBankAccountSlots__init__(account_number, owner, _balance) ==
    [account_number |-> account_number, owner |-> owner, _balance |-> _balance]

DataBankAccountSlots_deposit(self, amount) ==
    IF amount > 0 THEN [self EXCEPT !._balance = @ + amount] ELSE self

DataBankAccountSlots_withdraw(self, amount) ==
    IF 0 < amount /\ amount <= self._balance
    THEN [self |-> [self EXCEPT !._balance = @ - amount], result |-> TRUE]
    ELSE [self |-> self, result |-> FALSE]

Deposit(k, amount) ==
    /\ accounts[k]._balance + amount <= MaxBalance
    /\ accounts' = [accounts EXCEPT ![k] =
                       IF k = "ClassicBankAccountSlots"
                       THEN ClassicBankAccountSlots_deposit(@, amount)
                       ELSE DataBankAccountSlots_deposit(@, amount)]
    /\ call' = Invoked("deposit", k, "-", amount)
    /\ returned' = Returns(None)
    /\ UNCHANGED <<chars, lists, pc, ctor, report, hits, point, config, circles>>

Withdraw(k, amount) ==
    /\ LET r == IF k = "ClassicBankAccountSlots"
                THEN ClassicBankAccountSlots_withdraw(accounts[k], amount)
                ELSE DataBankAccountSlots_withdraw(accounts[k], amount)
       IN  /\ accounts' = [accounts EXCEPT ![k] = r.self]
           /\ returned' = Returns(r.result)
    /\ call' = Invoked("withdraw", k, "-", amount)
    /\ UNCHANGED <<chars, lists, pc, ctor, report, hits, point, config, circles>>

\* the balances accounts are opened with, and the amounts of the calls
OpeningBalances == {-1, 0, 2}

BankAmounts == {-1, 0, 1, 2, 5}

InitAccounts ==
    /\ \E classic \in OpeningBalances, data \in OpeningBalances :
          ctor = [k \in AccountClasses |->
                     [ account_number |-> "ACC001", owner |-> "John Doe",
                       initial_balance |->
                           IF k = "ClassicBankAccountSlots" THEN classic ELSE data ]]
    /\ accounts =
          [k \in AccountClasses |->
              IF k = "ClassicBankAccountSlots"
              THEN ClassicBankAccountSlots__init__(
                       ctor[k].account_number, ctor[k].owner, ctor[k].initial_balance)
              ELSE DataBankAccountSlots__init__(
                       ctor[k].account_number, ctor[k].owner, ctor[k].initial_balance)]
    /\ point = NoAttrs
    /\ config = NoAttrs
    /\ circles = NoAttrs
    /\ returned = Returns(None)
    /\ call = NoCall
    /\ NoCharacters

NextAccounts ==
    \/ \E k \in AccountClasses, amount \in BankAmounts : Deposit(k, amount)
    \/ \E k \in AccountClasses, amount \in BankAmounts : Withdraw(k, amount)

SpecAccounts == InitAccounts /\ [][NextAccounts]_vars

\* 022.py: ClassicImmutablePoint

\* hasattr(self, name), for a name the class does not define
hasattr(self, name) == name \in DOMAIN self

\* the truth value of an int
bool(value) == value # 0

\* hash() of an int is the int modulo a prime, 2^61 - 1 in CPython; the
\* model's prime is smaller
HashModulus == 8191

\* hash() of a tuple of ints: a function of the elements and their order
RECURSIVE hash(_)
hash(t) ==
    IF t = <<>> THEN 1
    ELSE (31 * hash(SubSeq(t, 1, Len(t) - 1)) + (t[Len(t)] % HashModulus)) % HashModulus

\* the properties of ClassicImmutablePoint: x and y, a getter and no setter
Properties == {"x", "y"}

\* object.__setattr__ on an instance with a __dict__: a property of the class
\* without a setter refuses, any other name is bound in the instance
object__setattr__(properties, self, name, value) ==
    IF name \in properties
    THEN [self |-> self, raised |-> "AttributeError"]
    ELSE [self   |-> [n \in DOMAIN self \cup {name} |->
                         IF n = name THEN value ELSE self[n]],
          raised |-> "-"]

ClassicImmutablePoint__setattr__(self, name, value) ==
    IF hasattr(self, "_initialized") /\ bool(self["_initialized"])
    THEN [self |-> self, raised |-> "AttributeError"]
    ELSE object__setattr__(Properties, self, name, value)

ClassicImmutablePoint__delattr__(self, name) ==
    [self |-> self, raised |-> "AttributeError"]

\* the two assignments of __init__, each through __setattr__
ClassicImmutablePoint__init__(x, y) ==
    LET first == ClassicImmutablePoint__setattr__(NoAttrs, "_x", x).self
    IN  ClassicImmutablePoint__setattr__(first, "_y", y).self

\* the properties x and y
ClassicImmutablePoint_x(self) == self["_x"]

ClassicImmutablePoint_y(self) == self["_y"]

ClassicImmutablePoint__eq__(self, other) ==
    <<ClassicImmutablePoint_x(self), ClassicImmutablePoint_y(self)>>
        = <<ClassicImmutablePoint_x(other), ClassicImmutablePoint_y(other)>>

ClassicImmutablePoint__hash__(self) ==
    hash(<<ClassicImmutablePoint_x(self), ClassicImmutablePoint_y(self)>>)

\* classic_point.name = value
SetAttr(name, value) ==
    /\ LET r == ClassicImmutablePoint__setattr__(point, name, value)
       IN  /\ point' = r.self
           /\ returned' = IF r.raised = "-" THEN Returns(None) ELSE Raises(r.raised)
    /\ call' = Invoked("__setattr__", "classic_point", name, value)
    /\ UNCHANGED <<chars, lists, pc, ctor, report, hits, accounts, config, circles>>

\* del classic_point.name
DelAttr(name) ==
    /\ LET r == ClassicImmutablePoint__delattr__(point, name)
       IN  /\ point' = r.self
           /\ returned' = IF r.raised = "-" THEN Returns(None) ELSE Raises(r.raised)
    /\ call' = Invoked("__delattr__", "classic_point", name, 0)
    /\ UNCHANGED <<chars, lists, pc, ctor, report, hits, accounts, config, circles>>

\* the names and values of the assignments, and the coordinates of the point
AttrNames == {"x", "y", "_x", "_y", "z", "_initialized"}

AttrValues == {0, 30}

Coordinates == {10, 20}

InitPoint ==
    /\ \E x \in Coordinates, y \in Coordinates :
          ctor = [o \in {"classic_point"} |-> [x |-> x, y |-> y]]
    /\ point = ClassicImmutablePoint__init__(ctor["classic_point"].x,
                                             ctor["classic_point"].y)
    /\ accounts = NoAttrs
    /\ config = NoAttrs
    /\ circles = NoAttrs
    /\ returned = Returns(None)
    /\ call = NoCall
    /\ NoCharacters

NextPoint ==
    \/ \E name \in AttrNames, value \in AttrValues : SetAttr(name, value)
    \/ \E name \in AttrNames : DelAttr(name)

SpecPoint == InitPoint /\ [][NextPoint]_vars

\* 022.py: ClassicConfiguration. In _hash, None is the empty sequence and a
\* hash h the sequence <<h>>.

\* the keys of the entries, as sorted() orders them
ConfigKeys == <<"debug", "host", "port">>

\* hash() of a str: fixed within a process; here the place of the key
hash_str(key) == CHOOSE i \in 1..Len(ConfigKeys) : ConfigKeys[i] = key

\* sorted(self._config.items()): the keys differ, so they decide the order
sorted_items(entries) ==
    LET held(key) == key \in DOMAIN entries
        keys == SelectSeq(ConfigKeys, held)
    IN  [i \in 1..Len(keys) |-> <<keys[i], entries[keys[i]]>>]

\* hash(tuple(sorted(self._config.items())))
hash_items(entries) ==
    LET items == sorted_items(entries)
    IN  hash([i \in 1..Len(items) |-> hash(<<hash_str(items[i][1]), items[i][2]>>)])

ClassicConfiguration__setattr__(self, name, value) ==
    IF hasattr(self, "_initialized") /\ self["_initialized"]
    THEN [self |-> self, raised |-> "AttributeError"]
    ELSE object__setattr__({}, self, name, value)

\* the three assignments of __init__, each through __setattr__
ClassicConfiguration__init__(kwargs) ==
    LET first == ClassicConfiguration__setattr__(NoAttrs, "_config", kwargs).self
        second == ClassicConfiguration__setattr__(first, "_hash", <<>>).self
    IN  ClassicConfiguration__setattr__(second, "_initialized", TRUE).self

ClassicConfiguration_get(self, key, default) ==
    IF key \in DOMAIN self["_config"] THEN self["_config"][key] ELSE default

\* the assignment to _hash goes through __setattr__; what it raises ends the call
ClassicConfiguration__hash__(self) ==
    IF self["_hash"] = <<>>
    THEN LET assigned == ClassicConfiguration__setattr__(
                             self, "_hash", <<hash_items(self["_config"])>>)
         IN  IF assigned.raised # "-"
             THEN [self |-> assigned.self, raised |-> assigned.raised, value |-> 0]
             ELSE [self |-> assigned.self, raised |-> "-",
                   value |-> assigned.self["_hash"][1]]
    ELSE [self |-> self, raised |-> "-", value |-> self["_hash"][1]]

\* new_config = self._config.copy(); new_config.update(kwargs)
ClassicConfiguration_with_update(self, kwargs) ==
    ClassicConfiguration__init__(
        [key \in DOMAIN self["_config"] \cup DOMAIN kwargs |->
            IF key \in DOMAIN kwargs THEN kwargs[key] ELSE self["_config"][key]])

\* hash(config)
Hash ==
    /\ LET r == ClassicConfiguration__hash__(config)
       IN  /\ config' = r.self
           /\ returned' = IF r.raised = "-" THEN Returns(r.value) ELSE Raises(r.raised)
    /\ call' = Invoked("__hash__", "classic_config", "-", 0)
    /\ UNCHANGED <<chars, lists, pc, ctor, report, hits, accounts, point, circles>>

\* config.get(key, -1)
Get(key) ==
    /\ returned' = Returns(ClassicConfiguration_get(config, key, -1))
    /\ call' = Invoked("get", "classic_config", key, -1)
    /\ UNCHANGED <<chars, lists, pc, ctor, report, hits, accounts, point, circles,
                   config>>

\* config = config.with_update(key=value)
WithUpdate(key, value) ==
    /\ config' = ClassicConfiguration_with_update(config, [k \in {key} |-> value])
    /\ returned' = Returns(0)
    /\ call' = Invoked("with_update", "classic_config", key, value)
    /\ UNCHANGED <<chars, lists, pc, ctor, report, hits, accounts, point, circles>>

\* the values of the entries
ConfigValues == {0, 1}

Kwargs ==
    UNION { [keys -> ConfigValues] : keys \in SUBSET {"debug", "host", "port"} }

InitConfig ==
    /\ \E kwargs \in Kwargs : ctor = [o \in {"classic_config"} |-> kwargs]
    /\ config = ClassicConfiguration__init__(ctor["classic_config"])
    /\ accounts = NoAttrs
    /\ point = NoAttrs
    /\ circles = NoAttrs
    /\ returned = Returns(None)
    /\ call = NoCall
    /\ NoCharacters

NextConfig ==
    \/ Hash
    \/ \E key \in {"debug", "host", "port"} : Get(key)
    \/ \E key \in {"debug", "host", "port"}, value \in ConfigValues :
          WithUpdate(key, value)

SpecConfig == InitConfig /\ [][NextConfig]_vars

\* 019.py: ClassicCircle and DataCircle. A circle variable is NoAttrs until
\* a construction has succeeded.

CircleClasses == {"ClassicCircle", "DataCircle"}

ClassicCircle__init__(radius) ==
    [self |-> [_radius |-> radius], raised |-> "-"]

\* the generated __init__ assigns the field, then __post_init__ checks it
DataCircle__post_init__(self) ==
    IF self._radius < 0
    THEN [self |-> self, raised |-> "ValueError"]
    ELSE [self |-> self, raised |-> "-"]

DataCircle__init__(_radius) == DataCircle__post_init__([_radius |-> _radius])

\* the setter of the property radius
ClassicCircle_radius(self, value) ==
    IF value < 0
    THEN [self |-> self, raised |-> "ValueError"]
    ELSE [self |-> [self EXCEPT !._radius = value], raised |-> "-"]

DataCircle_radius(self, value) ==
    IF value < 0
    THEN [self |-> self, raised |-> "ValueError"]
    ELSE [self |-> [self EXCEPT !._radius = value], raised |-> "-"]

\* circle = ClassicCircle(radius) or DataCircle(radius): the variable is bound
\* only if the construction returns
Construct(k, radius) ==
    /\ LET r == IF k = "ClassicCircle"
                THEN ClassicCircle__init__(radius) ELSE DataCircle__init__(radius)
       IN  /\ circles' = IF r.raised = "-" THEN [circles EXCEPT ![k] = r.self]
                          ELSE circles
           /\ returned' = IF r.raised = "-" THEN Returns(None) ELSE Raises(r.raised)
    /\ call' = Invoked("__init__", k, "radius", radius)
    /\ UNCHANGED <<chars, lists, pc, ctor, report, hits, accounts, point, config>>

\* circle.radius = value
SetRadius(k, value) ==
    /\ circles[k] # NoAttrs
    /\ LET r == IF k = "ClassicCircle"
                THEN ClassicCircle_radius(circles[k], value)
                ELSE DataCircle_radius(circles[k], value)
       IN  /\ circles' = [circles EXCEPT ![k] = r.self]
           /\ returned' = IF r.raised = "-" THEN Returns(None) ELSE Raises(r.raised)
    /\ call' = Invoked("radius", k, "radius", value)
    /\ UNCHANGED <<chars, lists, pc, ctor, report, hits, accounts, point, config>>

\* the radii of the constructions and of the setter calls
Radii == {-5, -1, 0, 5, 10}

InitCircles ==
    /\ circles = [k \in CircleClasses |-> NoAttrs]
    /\ ctor = NoAttrs
    /\ accounts = NoAttrs
    /\ point = NoAttrs
    /\ config = NoAttrs
    /\ returned = Returns(None)
    /\ call = NoCall
    /\ NoCharacters

NextCircles ==
    \/ \E k \in CircleClasses, radius \in Radii : Construct(k, radius)
    \/ \E k \in CircleClasses, value \in Radii : SetRadius(k, value)

SpecCircles == InitCircles /\ [][NextCircles]_vars

(* ------------------------------------------------------------------ *)
(* Construction arguments                                              *)
(* ------------------------------------------------------------------ *)

NoKw == [f \in {} |-> 0]

\* one draw of the six default factories
DiceRoll ==
    [ strength |-> 3, perception |-> 8, dexterity |-> 1, intelligence |-> 10,
      charisma |-> 6, luck |-> 4 ]

\* what the default factories may draw for the attributes kw leaves out:
\* the same number for each of them, or the draw above
Rolls(kw) ==
    LET rolled == Attrs \ DOMAIN kw
    IN  {[f \in rolled |-> r] : r \in randint(1, 10)}
            \cup {[f \in rolled |-> DiceRoll[f]]}

Args(name, character_class, kw, rnd, inventory) ==
    [name |-> name, character_class |-> character_class, kw |-> kw, rnd |-> rnd,
     inventory |-> inventory]

\* the health the hero of the runs is constructed with
HeroHealths == {0}

HeroKw(h) ==
    [f \in Attrs \cup {"health"} |-> IF f = "health" THEN h ELSE 5]

GruntKw ==
    [f \in Attrs \cup {"health", "attack", "defense"} |->
        CASE f = "health" -> 5 [] f = "attack" -> 5 [] f = "defense" -> 2
          [] OTHER -> 5]

HeroArgs ==
    { Args("Arthur", cc, HeroKw(h), NoKw, inv) :
        cc \in {Str("Knight"), Str("Mage")}, h \in HeroHealths,
        inv \in {None, "supplied"} }

GoblinArgs ==
    { Args("Goblin", Str("Grunt"), GruntKw, NoKw, inv) : inv \in {None, "supplied"} }

\* the arguments of main(): Arthur with every stat spelled out, and the goblin
ArthurKw ==
    [f \in Fields |->
        CASE f = "health" -> 100 [] f = "attack" -> 10 [] f = "level" -> 1
          [] OTHER -> 5]

GoblinKw ==
    [f \in {"health", "attack", "defense"} |->
        CASE f = "health" -> 30 [] f = "attack" -> 5 [] OTHER -> 2]

\* the class arguments: each label as a str, each enum member, and labels
\* that are no member's value
Members == DOMAIN CharacterClass

Labels == {CharacterClass[m].value : m \in Members}

UnknownLabels == {"Peasant", "knight", "BloodHunter"}

ClassArgs ==
    {Str(l) : l \in Labels \cup UnknownLabels} \cup {CharacterClass[m] : m \in Members}

\* the values a single keyword argument is given
OverrideValues == {0, 7}

Kws ==
    {NoKw, ArthurKw, GoblinKw}
        \cup UNION {[{f} -> OverrideValues] : f \in Fields}
        \cup [{"health", "attack", "defense"} -> OverrideValues]

WideArgs ==
    UNION { { Args("Arthur", cc, kw, rnd, None) : cc \in ClassArgs, rnd \in Rolls(kw) } :
            kw \in Kws }

InitWith(hero, goblin) ==
    /\ ctor = [c \in CharIds |-> IF c = "hero" THEN hero ELSE goblin]
    /\ chars = [c \in CharIds |-> __init__(ctor[c])]
    /\ pc = [c \in CharIds |-> "__init__"]
    /\ lists = [l \in ListIds |-> <<>>]
    /\ call = NoCall
    /\ report = <<>>
    /\ hits = 0
    /\ NoOthers

Init == \E hero \in HeroArgs, goblin \in GoblinArgs : InitWith(hero, goblin)

Next ==
    \/ \E c \in CharIds : PostInit(c)
    \/ \E c \in CharIds, amount \in Amounts : TakeDamage(c, amount)
    \/ \E c \in CharIds : \E enemy \in CharIds \ {c} : AttackEnemy(c, enemy)
    \/ \E c \in Carriers, item \in Items : AddItem(c, item)
    \/ \E c \in Carriers, item \in Items : UseConsumable(c, item)
    \/ \E c \in CharIds : DisplayInfo(c)

Spec == Init /\ [][Next]_vars

\* Construction alone, over every class and a wide choice of arguments
InitConstruct ==
    \E hero \in WideArgs :
        InitWith(hero, Args("Goblin", Str("Grunt"), GoblinKw, DiceRoll, None))

NextConstruct == \E c \in CharIds : PostInit(c)

SpecConstruct == InitConstruct /\ [][NextConstruct]_vars

\* The scripted battle: the goblin of main() under the attacks of a hero
\* constructed with attack=5, of any class
BattleArgs ==
    { Args("Arthur", cc, [f \in {"attack"} |-> 5], DiceRoll, None) : cc \in ClassArgs }

InitBattle ==
    \E hero \in BattleArgs :
        InitWith(hero, Args("Goblin", Str("Grunt"), GoblinKw, DiceRoll, None))

NextBattle ==
    \/ \E c \in CharIds : PostInit(c)
    \/ Battle

SpecBattle == InitBattle /\ [][NextBattle]_vars

\* Potions on their own: consume() called over and over on the potions of a list
PotionTypes ==
    {"HEALTH", "MANA", "STRENGTH", "PERCEPTION", "DEXTERITY", "INTELLIGENCE",
     "CHARISMA", "LUCK"}

PotionAmounts == {-3, 0, 2, 5}

Flasks ==
    { Potion("flask", "Potion", "A potion.", t, a) : t \in PotionTypes, a \in PotionAmounts }

Vials ==
    { Potion("vial", "Potion", "A potion.", t, a) : t \in {"HEALTH", "MANA"}, a \in PotionAmounts }

InitPotions ==
    /\ \E hero \in HeroArgs, goblin \in GoblinArgs :
          /\ hero.inventory = None
          /\ hero.character_class = Str("Knight")
          /\ goblin.inventory = None
          /\ ctor = [c \in CharIds |-> IF c = "hero" THEN hero ELSE goblin]
    /\ chars = [c \in CharIds |-> __init__(ctor[c])]
    /\ pc = [c \in CharIds |-> "__init__"]
    /\ \E flask \in Flasks, vial \in Vials :
          lists = [l \in ListIds |-> IF l = "supplied" THEN <<flask, vial>> ELSE <<>>]
    /\ call = NoCall
    /\ report = <<>>
    /\ hits = 0
    /\ NoOthers

NextPotions == \E i \in 1..2 : Consume(i)

SpecPotions == InitPotions /\ [][NextPotions]_vars

\* A hero of its own inventory among a scroll, a potion and a flask of water
InitScrolls ==
    \E hero \in HeroArgs, goblin \in GoblinArgs :
        /\ hero.inventory = None
        /\ goblin.inventory = None
        /\ InitWith(hero, goblin)

NextScrolls ==
    \/ \E c \in CharIds : PostInit(c)
    \/ \E c \in CharIds, amount \in Amounts : TakeDamage(c, amount)
    \/ \E c \in CharIds : \E enemy \in CharIds \ {c} : AttackEnemy(c, enemy)
    \/ \E c \in Carriers, item \in Scrolls : AddItem(c, item)
    \/ \E c \in Carriers, item \in Scrolls : UseConsumable(c, item)

SpecScrolls == InitScrolls /\ [][NextScrolls]_vars

\* Defaults: a hero of any class with attributes left to the default
\* factories, then a Weapon or an Armor with or without a durability.
\* ctor["forged"] is the arguments of the item constructed last.
ItemArgs(class, kw, rnd) == [class |-> class, kw |-> kw, rnd |-> rnd]

NoItemArgs == ItemArgs("-", NoKw, 0)

\* the durabilities a caller supplies
Durabilities == {0, 15}

\* args.rnd is what the default factory of durability drew, 0 if it did not run
ForgeArgs ==
    { ItemArgs(class, NoKw, rnd) : class \in {"Weapon", "Armor"}, rnd \in randint(1, 10) }
        \cup { ItemArgs(class, [f \in {"durability"} |-> d], 0) :
                  class \in {"Weapon", "Armor"}, d \in Durabilities }

\* the generated __init__ of Weapon and of Armor
Forged(args) ==
    IF args.class = "Weapon"
    THEN Weapon("forged", "Sword of Power", "A mighty sword.", 3,
                Arg(args.kw, "durability", args.rnd))
    ELSE Armor("forged", "Shield of Oak", "A sturdy shield.", 3,
               Arg(args.kw, "durability", args.rnd))

\* as in main(), the items are constructed once the characters are
Forge(args) ==
    /\ \A c \in CharIds : pc[c] = "ready"
    /\ lists["supplied"] = <<>>
    /\ ctor' = [ctor EXCEPT !["forged"] = args]
    /\ lists' = [lists EXCEPT !["supplied"] = <<Forged(args)>>]
    /\ call' = Called(args.class, "-", 0, Forged(args), "-")
    /\ report' = <<>>
    /\ UNCHANGED <<chars, pc, hits, others>>

DefaultKws == {NoKw, [f \in {"strength", "intelligence"} |-> 0]}

DefaultArgs ==
    UNION { { Args("Arthur", cc, kw, rnd, None) : cc \in ClassArgs, rnd \in Rolls(kw) } :
            kw \in DefaultKws }

InitDefaults ==
    /\ \E hero \in DefaultArgs :
          ctor = [c \in CharIds \cup {"forged"} |->
                     CASE c = "hero" -> hero
                       [] c = "goblin" -> Args("Goblin", Str("Grunt"), GoblinKw, DiceRoll, None)
                       [] OTHER -> NoItemArgs]
    /\ chars = [c \in CharIds |-> __init__(ctor[c])]
    /\ pc = [c \in CharIds |-> "__init__"]
    /\ lists = [l \in ListIds |-> <<>>]
    /\ call = NoCall
    /\ report = <<>>
    /\ hits = 0
    /\ NoOthers

NextDefaults ==
    \/ \E c \in CharIds : PostInit(c)
    \/ \E args \in ForgeArgs : Forge(args)

SpecDefaults == InitDefaults /\ [][NextDefaults]_vars

(* ------------------------------------------------------------------ *)
(* Properties                                                          *)
(* ------------------------------------------------------------------ *)

\* the list a character's inventory field refers to, in the current state
InventoryOf(c) == lists[chars[c].inventory]

\* how many elements of the inventory a membership test for item matches
Count(inventory, item) ==
    Cardinality({i \in 1..Len(inventory) : Matches(inventory[i], item)})

Healed == <<"drinking", "healed">>

\* C1: after every take_damage call, made directly or by attack_enemy, the
\* health of the character hit is >= 0, whatever the amount.
C1_HealthNotNegativeAfterTakeDamage ==
    /\ call.op = "take_damage" => chars[call.self].health >= 0
    /\ call.op = "attack_enemy" => chars[call.enemy].health >= 0

\* a lethal hit has been clamped: the amount exceeds health and defense
C1_Witness ==
    /\ call.op = "take_damage"
    /\ call.amount = 60
    /\ chars[call.self].health = 0
    /\ report = <<"defeated">>

\* C2: take_damage(amount) with amount >= 0 sets
\* health' = max(0, health - max(0, amount - defense)) and changes no other
\* field of the character, no other character and no list.
C2_TakeDamageResult ==
    [][ (call'.op = "take_damage" /\ call'.amount >= 0) =>
            LET c == call'.self
                expected == Max(0, chars[c].health
                                     - Max(0, call'.amount - chars[c].defense))
            IN  /\ chars'[c] = [chars[c] EXCEPT !.health = expected]
                /\ \A d \in CharIds \ {c} : chars'[d] = chars[d]
                /\ lists' = lists
                /\ pc' = pc ]_vars

\* a hit that got through the defense and left the character standing
C2_Witness ==
    /\ call.op = "take_damage"
    /\ call.amount > chars[call.self].defense
    /\ chars[call.self].health > 0
    /\ report = <<"took">>

\* C3: in every reachable state of a constructed Character, health is >= 0.
C3_HealthNeverNegative ==
    \A c \in CharIds : pc[c] = "ready" => chars[c].health >= 0

\* C4: use_consumable(p) for a Potion p in the inventory shortens the
\* inventory by exactly 1 and adds exactly p.amount to health, unclamped.
C4_PotionUsed ==
    [][ ( /\ call'.op = "use_consumable"
          /\ IsPotion(call'.item)
          /\ Contains(InventoryOf(call'.self), call'.item) ) =>
            LET c == call'.self
                inv == chars[c].inventory
            IN  /\ Len(lists'[inv]) = Len(lists[inv]) - 1
                /\ chars'[c].health = chars[c].health + call'.item.amount
                /\ report' = Healed ]_vars

\* the Knight built with health 10 has drunk a potion of 2
C4_Witness ==
    /\ call.op = "use_consumable"
    /\ IsPotion(call.item)
    /\ report = Healed
    /\ ctor[call.self].character_class = Str("Knight")
    /\ chars[call.self].health = 12

\* C5 as claimed: after a successful use_consumable(p), a membership test for
\* p on the inventory is false, whatever the inventory held.
C5_PotionGone ==
    (call.op = "use_consumable" /\ report = Healed) =>
        ~Contains(InventoryOf(call.self), call.item)

\* C5 as amended: a successful use_consumable(p) takes exactly one element
\* matching p out of the inventory, so that p is absent afterwards exactly
\* when the inventory held a single element matching p.
C5_OneMatchRemoved ==
    [][ (call'.op = "use_consumable" /\ report' = Healed) =>
            LET inv == chars[call'.self].inventory
                before == Count(lists[inv], call'.item)
            IN  /\ before >= 1
                /\ Count(lists'[inv], call'.item) = before - 1
                /\ ~Contains(lists'[inv], call'.item) <=> before = 1 ]_vars

\* a potion was drunk and the inventory still holds a match for it
C5_Witness ==
    /\ call.op = "use_consumable"
    /\ report = Healed
    /\ Count(InventoryOf(call.self), call.item) = 1

\* C6: use_consumable(x) for x not in the inventory changes no character and
\* no list, and completes with the "does not have" report.
C6_AbsentIsNoOp ==
    [][ ( /\ call'.op = "use_consumable"
          /\ ~Contains(InventoryOf(call'.self), call'.item) ) =>
            /\ chars' = chars
            /\ lists' = lists
            /\ pc' = pc
            /\ report' = <<"does_not_have">> ]_vars

\* a potion the character does not hold was asked for, next to another item
C6_Witness ==
    /\ call.op = "use_consumable"
    /\ IsPotion(call.item)
    /\ report = <<"does_not_have">>
    /\ Len(InventoryOf(call.self)) > 0

\* C7: use_consumable(x) for x in the inventory that is no Potion changes no
\* character and no list, and completes with the "not a consumable" report.
C7_NonPotionIsNoOp ==
    [][ ( /\ call'.op = "use_consumable"
          /\ Contains(InventoryOf(call'.self), call'.item)
          /\ ~IsPotion(call'.item) ) =>
            /\ chars' = chars
            /\ lists' = lists
            /\ pc' = pc
            /\ report' = <<"not_consumable">> ]_vars

\* the sword in the inventory was asked for and is still there
C7_Witness ==
    /\ call.op = "use_consumable"
    /\ call.item = sword
    /\ report = <<"not_consumable">>
    /\ Contains(InventoryOf(call.self), sword)

\* the class argument names one of the enumerated classes
KnownClass(character_class) == character_class.value \in Labels

\* the bonus record of a label: what the bonuses make of a character whose
\* stats are all 0
bonuses_for(label) ==
    _apply_class_bonuses(
        [ name |-> "-", character_class |-> Str(label), strength |-> 0,
          perception |-> 0, dexterity |-> 0, intelligence |-> 0, charisma |-> 0,
          luck |-> 0, level |-> 0, health |-> 0, attack |-> 0, defense |-> 0,
          inventory |-> None ])

\* C8: for every class, each stat supplied at construction ends as the
\* supplied value plus the class's bonus for it; the Knight built with
\* strength 5, defense 5 and health 100 ends with 7, 6 and 110.
C8_BonusOnTopOfOverrides ==
    \A c \in CharIds :
        (pc[c] = "ready" /\ KnownClass(ctor[c].character_class)) =>
            /\ \A f \in DOMAIN ctor[c].kw :
                  chars[c][f] = ctor[c].kw[f]
                                  + bonuses_for(ctor[c].character_class.value)[f]
            /\ (ctor[c].character_class.value = "Knight" /\ ctor[c].kw = ArthurKw) =>
                  /\ chars[c].strength = 7
                  /\ chars[c].defense = 6
                  /\ chars[c].health = 110

\* Arthur the Knight, every stat supplied, is constructed
C8_Witness ==
    /\ pc["hero"] = "ready"
    /\ ctor["hero"].character_class = Str("Knight")
    /\ ctor["hero"].kw = ArthurKw
    /\ chars["hero"].strength = 7
    /\ chars["hero"].health = 110

\* C9: a class label that is none of the enumerated labels gets no bonus:
\* construction completes and every field is as __init__ assigned it.
C9_UnknownLabelNoBonus ==
    \A c \in CharIds :
        ( /\ pc[c] = "ready"
          /\ ~IsCharacterClass(ctor[c].character_class)
          /\ ~KnownClass(ctor[c].character_class) ) =>
            /\ \A f \in Fields : chars[c][f] = __init__(ctor[c])[f]
            /\ chars[c].character_class = ctor[c].character_class

\* a character of the label "BloodHunter", health supplied, is constructed
C9_Witness ==
    /\ pc["hero"] = "ready"
    /\ ctor["hero"].character_class = Str("BloodHunter")
    /\ "health" \in DOMAIN ctor["hero"].kw
    /\ chars["hero"].health = ctor["hero"].kw["health"]

\* C10: constructed from an enum member, a Character stores the member's
\* string label and is the character the label itself would have built.
C10_EnumStoredAsLabel ==
    \A c \in CharIds :
        (pc[c] = "ready" /\ IsCharacterClass(ctor[c].character_class)) =>
            /\ chars[c].character_class = Str(ctor[c].character_class.value)
            /\ chars[c] = __post_init__(
                   __init__([ctor[c] EXCEPT !.character_class = Str(@.value)]), c)

\* a character constructed from CharacterClass.KNIGHT carries the bonus
C10_Witness ==
    /\ pc["hero"] = "ready"
    /\ ctor["hero"].character_class = CharacterClass.KNIGHT
    /\ chars["hero"].character_class = Str("Knight")
    /\ chars["hero"].defense = 6

\* the fields no call after construction is to change
Stats == Fields \ {"health"}

\* the inventory without its i-th element
WithoutIndex(inventory, i) ==
    [k \in 1..(Len(inventory) - 1) |->
        IF k < i THEN inventory[k] ELSE inventory[k + 1]]

\* C11: once a character is constructed, no take_damage, attack_enemy,
\* add_item, use_consumable or display_info call changes its six attributes,
\* its level, attack or defense, or its character_class.
C11_StatsFixedAfterConstruction ==
    [][ \A c \in CharIds :
            pc[c] = "ready" =>
                /\ \A f \in Stats : chars'[c][f] = chars[c][f]
                /\ chars'[c].character_class = chars[c].character_class ]_vars

\* the hero took damage and still has the stats it was constructed with
C11_Witness ==
    /\ call.op = "take_damage"
    /\ call.self = "hero"
    /\ report = <<"took">>
    /\ chars["hero"].health < __post_init__(__init__(ctor["hero"]), "hero").health
    /\ \A f \in Stats :
          chars["hero"][f] = __post_init__(__init__(ctor["hero"]), "hero")[f]

\* C12: the inventory of a character constructed without one starts empty,
\* gets each item passed to add_item at its end, loses one matching element
\* at each successful use_consumable, and is left alone by every other call.
C12_InventoryFollowsCalls ==
    [][ \A c \in CharIds :
            ctor[c].inventory = None =>
                IF pc[c] # "ready"
                THEN pc'[c] = "ready" => lists'[chars'[c].inventory] = <<>>
                ELSE LET old == lists[chars[c].inventory]
                         new == lists'[chars'[c].inventory]
                     IN  IF call'.op = "add_item" /\ call'.self = c
                         THEN new = Append(old, call'.item)
                         ELSE IF /\ call'.op = "use_consumable"
                                 /\ call'.self = c
                                 /\ report' = Healed
                         THEN \E i \in 1..Len(old) :
                                 /\ Matches(old[i], call'.item)
                                 /\ new = WithoutIndex(old, i)
                         ELSE new = old ]_vars

\* sword and potion were picked up, the potion was drunk, the sword is left
C12_Witness ==
    /\ ctor["hero"].inventory = None
    /\ call.op = "use_consumable"
    /\ report = Healed
    /\ InventoryOf("hero") = <<sword>>

\* C13: A.attack_enemy(B) does to B what B.take_damage(A.attack) does,
\* health' = max(0, health - max(0, A.attack - B.defense)), and changes no
\* other field of B, no field of A and no inventory.
C13_AttackIsTakeDamage ==
    [][ call'.op = "attack_enemy" =>
            LET a == call'.self
                b == call'.enemy
                hit == take_damage(chars[b], chars[a].attack)
                expected == Max(0, chars[b].health
                                     - Max(0, chars[a].attack - chars[b].defense))
            IN  /\ a # b
                /\ chars'[b] = [chars[b] EXCEPT !.health = expected]
                /\ chars'[b] = hit.self
                /\ report' = <<"attacks">> \o hit.out
                /\ chars'[a] = chars[a]
                /\ lists' = lists
                /\ pc' = pc ]_vars

\* the hero's attack got through and the goblin is still standing
C13_Witness ==
    /\ call.op = "attack_enemy"
    /\ call.enemy = "goblin"
    /\ report = <<"attacks", "took">>
    /\ chars["goblin"].health > 0
    /\ chars["goblin"].health < __post_init__(__init__(ctor["goblin"]), "goblin").health

\* C14: add_item(item) appends item to the inventory, also when the inventory
\* holds it already: the length grows by 1, the items before keep their
\* places, and no field of any character changes.
C14_AddItemAppends ==
    [][ call'.op = "add_item" =>
            LET inv == chars[call'.self].inventory
                old == lists[inv]
                new == lists'[inv]
            IN  /\ Len(new) = Len(old) + 1
                /\ new[Len(new)] = call'.item
                /\ \A i \in 1..Len(old) : new[i] = old[i]
                /\ \A l \in ListIds \ {inv} : lists'[l] = lists[l]
                /\ chars' = chars
                /\ pc' = pc
                /\ report' = <<"picked_up">> ]_vars

\* the sword was picked up a second time
C14_Witness ==
    /\ call.op = "add_item"
    /\ call.item = sword
    /\ InventoryOf(call.self) = <<sword, sword>>

\* C15: add_item or use_consumable on one character never changes the
\* inventory of another, however the two were constructed.
C15_InventoriesExclusive ==
    [][ call'.op \in {"add_item", "use_consumable"} =>
            \A d \in CharIds \ {call'.self} :
                pc[d] = "ready" =>
                    lists'[chars'[d].inventory] = lists[chars[d].inventory] ]_vars

\* the goblin of main() and a hero whose attack is 5 are both constructed
BattleOn == pc["hero"] = "ready" /\ pc["goblin"] = "ready" /\ chars["hero"].attack = 5

\* C16 as claimed: the Grunt constructed with health=30, attack=5, defense=2
\* has health 12 after the 6th hit by an attack of 5, and is not defeated.
C16_GruntAtTwelve ==
    (BattleOn /\ hits = 6) =>
        /\ chars["goblin"].health = 12
        /\ report = <<"attacks", "took">>

\* C16 as amended: the Grunt starts at 35, loses 3 at each hit, and has
\* health 17 after the 6th, without having been defeated.
C16_GruntAtSeventeen ==
    BattleOn =>
        /\ chars["goblin"].health = 35 - 3 * hits
        /\ hits > 0 => report = <<"attacks", "took">>
        /\ hits = 6 => chars["goblin"].health = 17

\* the 6th hit has landed
C16_Witness ==
    /\ BattleOn
    /\ hits = 6
    /\ chars["goblin"].health = 17
    /\ ctor["goblin"].kw["health"] = 30

\* what Python raises where a call cannot go on
Exceptions == {"AttributeError", "TypeError", "ValueError"}

\* C18: every take_damage, attack_enemy, add_item, use_consumable and
\* display_info call on a constructed character completes normally.
C18_NoCallRaises ==
    \A i \in 1..Len(report) : report[i] \notin Exceptions

\* a potion was asked of a character that holds nothing
C18_Witness ==
    /\ call.op = "use_consumable"
    /\ IsPotion(call.item)
    /\ InventoryOf(call.self) = <<>>
    /\ report = <<"does_not_have">>

\* C19: consume() returns the potion's amount and changes no field of the
\* potion, so that every later call returns the same.
C19_ConsumeLeavesPotion ==
    [][ call'.op = "consume" =>
            /\ lists' = lists
            /\ call'.amount = call'.item.amount
            /\ report' = <<"drinking">>
            /\ \E i \in 1..Len(lists'["supplied"]) :
                  /\ lists'["supplied"][i] = call'.item
                  /\ consume(lists'["supplied"][i]).result = call'.amount ]_vars

\* a potion of 5 was drunk from and still holds 5
C19_Witness ==
    /\ call.op = "consume"
    /\ call.amount = 5
    /\ lists["supplied"][1].amount = 5
    /\ call.item = lists["supplied"][1]

\* C20 as claimed: take_damage with a negative amount leaves the character
\* with more health than before.
C20_NegativeAmountHeals ==
    [][ (call'.op = "take_damage" /\ call'.amount < 0) =>
            chars'[call'.self].health > chars[call'.self].health ]_vars

\* C20 as amended: take_damage with a negative amount never heals: the
\* health ends no higher than max(health, 0), and exactly there when the
\* defense is at least the amount.
C20_NegativeAmountNeverHeals ==
    [][ (call'.op = "take_damage" /\ call'.amount < 0) =>
            LET c == call'.self
            IN  /\ chars'[c].health <= Max(0, chars[c].health)
                /\ chars[c].defense >= call'.amount =>
                      chars'[c].health = Max(0, chars[c].health) ]_vars

\* a negative amount was taken and the health is what it was constructed as
C20_Witness ==
    /\ call.op = "take_damage"
    /\ call.amount < 0
    /\ report = <<"took">>
    /\ chars[call.self].health = __post_init__(__init__(ctor[call.self]), call.self).health
    /\ chars[call.self].health > 0

\* the classes that define or inherit a consume operation
HasConsume(item) == item.class \in {"Consumable", "Potion"}

\* C21: use_consumable(x) for x in the inventory with a consume operation,
\* Potion or not, uses x up: the inventory loses an element and the report is
\* not the "not a consumable" one.
C21_DispatchOnCapability ==
    [][ ( /\ call'.op = "use_consumable"
          /\ HasConsume(call'.item)
          /\ Contains(InventoryOf(call'.self), call'.item) ) =>
            LET inv == chars[call'.self].inventory
            IN  /\ Len(lists'[inv]) = Len(lists[inv]) - 1
                /\ report' # <<"not_consumable">> ]_vars

\* the character the last take_damage ran on, called directly or by attack_enemy
Hit == IF call.op = "attack_enemy" THEN call.enemy ELSE call.self

\* what that take_damage printed
HitReport == IF call.op = "attack_enemy" THEN Tail(report) ELSE report

\* C22: each take_damage call prints exactly one of the two reports: the
\* defeat when the health it leaves is 0, and only then, the remaining
\* health otherwise, which is then > 0.
C22_DefeatIffZero ==
    call.op \in {"take_damage", "attack_enemy"} =>
        /\ HitReport \in {<<"defeated">>, <<"took">>}
        /\ HitReport = <<"defeated">> <=> chars[Hit].health = 0
        /\ HitReport = <<"took">> <=> chars[Hit].health > 0

\* a hit brought the health to exactly 0
C22_Witness ==
    /\ call.op = "take_damage"
    /\ call.amount - chars[call.self].defense = 2
    /\ chars[call.self].health = 0
    /\ ctor[call.self].character_class = Str("Knight")
    /\ report = <<"defeated">>

\* C23: each attribute left out at construction ends as a value in 1..10
\* plus the class's bonus for it, and a Weapon or Armor constructed without a
\* durability has one in 1..10.
C23_DefaultsInOneToTen ==
    /\ \A c \in CharIds :
          pc[c] = "ready" =>
              \A f \in Attrs \ DOMAIN ctor[c].kw :
                  \E r \in 1..10 :
                      chars[c][f] = r + bonuses_for(chars[c].character_class.value)[f]
    /\ \A i \in 1..Len(lists["supplied"]) :
          ( /\ lists["supplied"][i].class \in {"Weapon", "Armor"}
            /\ "durability" \notin DOMAIN ctor["forged"].kw ) =>
              lists["supplied"][i].durability \in 1..10

\* a Knight rolled 10 for every attribute, and an Armor drew durability 1
C23_Witness ==
    /\ pc["hero"] = "ready"
    /\ ctor["hero"].kw = NoKw
    /\ chars["hero"].character_class = Str("Knight")
    /\ chars["hero"].strength = 12
    /\ chars["hero"].luck = 10
    /\ call.op = "Armor"
    /\ ctor["forged"].kw = NoKw
    /\ lists["supplied"][1].durability = 1

\* C24: display_info() changes no character, no list and no item, and after
\* the stat lines prints "Empty" exactly when the inventory holds no item,
\* the names of the items in inventory order otherwise.
C24_DisplayInfoReadOnly ==
    [][ call'.op = "display_info" =>
            LET inventory == lists[chars[call'.self].inventory]
                shown == Tail(report')
            IN  /\ chars' = chars
                /\ lists' = lists
                /\ pc' = pc
                /\ Head(report') = "info"
                /\ shown = <<"Empty">> <=> Len(inventory) = 0
                /\ Len(inventory) > 0 =>
                      /\ Len(shown) = Len(inventory)
                      /\ \A i \in 1..Len(inventory) : shown[i] = inventory[i].name ]_vars

\* the hero's sword and potion were shown, in this order
C24_Witness ==
    /\ call.op = "display_info"
    /\ InventoryOf(call.self) = <<sword, potion>>
    /\ report = <<"info", "Sword of Power", "Healing Potion">>

\* C25: a constructed character whose health is 0 keeps health 0 through
\* every take_damage and attack_enemy call, and gets a positive health only
\* by a successful use_consumable of its own with a Potion of amount > 0.
C25_DefeatedUntilPotion ==
    [][ \A c \in CharIds :
            (pc[c] = "ready" /\ chars[c].health = 0) =>
                /\ call'.op \in {"take_damage", "attack_enemy"} =>
                      chars'[c].health = 0
                /\ chars'[c].health > 0 =>
                      /\ call'.op = "use_consumable"
                      /\ call'.self = c
                      /\ report' = Healed
                      /\ IsPotion(call'.item)
                      /\ call'.item.amount > 0 ]_vars

\* the Mage, constructed below 0, was defeated by a hit and then drank the
\* potion of 2 at health 0
C25_Witness ==
    /\ ctor["hero"].character_class = Str("Mage")
    /\ call.op = "use_consumable"
    /\ call.self = "hero"
    /\ call.item = potion
    /\ report = Healed
    /\ chars["hero"].health = 2

\* C26: a successful use_consumable(p) takes out of the inventory the first
\* element equal to p, by class and field values, be it the object p or
\* another, and leaves the other elements in the order they were in.
C26_FirstEqualRemoved ==
    [][ (call'.op = "use_consumable" /\ report' = Healed) =>
            LET inv == chars[call'.self].inventory
                old == lists[inv]
            IN  \E i \in 1..Len(old) :
                    /\ ItemEq(old[i], call'.item)
                    /\ \A j \in 1..(i - 1) : ~ItemEq(old[j], call'.item)
                    /\ lists'[inv] = WithoutIndex(old, i) ]_vars

\* the inventory held two equal potions: the first went, the second is left
C26_Witness ==
    /\ call.op = "use_consumable"
    /\ report = Healed
    /\ call.item = potion_twin
    /\ InventoryOf(call.self) = <<potion_twin>>
    /\ chars[call.self].health = 12

\* C27: an account of either class opened with a balance >= 0 never has a
\* negative balance; withdraw(a) subtracts a and returns True when
\* 0 < a <= balance, returns False and leaves the balance otherwise, and
\* deposit(a) with a <= 0 leaves the balance.
C27_BalanceNeverNegative ==
    [][ \A k \in AccountClasses :
            ctor[k].initial_balance >= 0 =>
                LET balance == accounts[k]._balance
                    a == call'.value
                IN  /\ balance >= 0
                    /\ accounts'[k]._balance >= 0
                    /\ (call'.op = "withdraw" /\ call'.self = k) =>
                          IF 0 < a /\ a <= balance
                          THEN /\ accounts'[k]._balance = balance - a
                               /\ returned' = Returns(TRUE)
                          ELSE /\ accounts'[k]._balance = balance
                               /\ returned' = Returns(FALSE)
                    /\ (call'.op = "deposit" /\ call'.self = k /\ a <= 0) =>
                          accounts'[k]._balance = balance
                    /\ call'.self # k => accounts'[k] = accounts[k] ]_vars

\* the dataclass account was emptied by a withdrawal of all it held
C27_Witness ==
    /\ call.op = "withdraw"
    /\ call.self = "DataBankAccountSlots"
    /\ call.value = 5
    /\ returned = Returns(TRUE)
    /\ accounts["DataBankAccountSlots"]._balance = 0

\* the point as it was constructed
Constructed ==
    ClassicImmutablePoint__init__(ctor["classic_point"].x, ctor["classic_point"].y)

\* C28: every assignment to an attribute of a ClassicImmutablePoint, x, y,
\* _x, _y or a new name, and every deletion raises AttributeError and leaves
\* the coordinates, the equality and the hash of the point as they were.
C28_PointImmutable ==
    [][ call'.op \in {"__setattr__", "__delattr__"} =>
            /\ returned' = Raises("AttributeError")
            /\ ClassicImmutablePoint_x(point') = ClassicImmutablePoint_x(point)
            /\ ClassicImmutablePoint_y(point') = ClassicImmutablePoint_y(point)
            /\ ClassicImmutablePoint__hash__(point') = ClassicImmutablePoint__hash__(point)
            /\ ClassicImmutablePoint__eq__(point', Constructed)
                  = ClassicImmutablePoint__eq__(point, Constructed) ]_vars

\* C29: hash() of a ClassicConfiguration completes without an exception, at
\* the first call and at every later one, returns the hash of the sorted
\* entries each time, and leaves the entries as they were.
C29_HashCompletes ==
    [][ call'.op = "__hash__" =>
            /\ returned'.raised = "-"
            /\ returned'.value = hash_items(config["_config"])
            /\ config'["_config"] = config["_config"] ]_vars

\* C30: no ClassicCircle and no DataCircle ever has a negative radius: a
\* construction with a negative radius raises ValueError, and so does the
\* setter called with a negative value, which leaves the radius as it was.
C30_RadiusNeverNegative ==
    [][ \A k \in CircleClasses :
            /\ circles'[k] # NoAttrs => circles'[k]._radius >= 0
            /\ (call'.self = k /\ call'.value < 0) =>
                  /\ returned' = Raises("ValueError")
                  /\ circles'[k] = circles[k] ]_vars

====
